---- MODULE Spec2Model ----
(***************************************************************************)
(* Perceptual hashing in image_tools: CGImage::convert_to_gray, shrink,    *)
(* image_from_bitmap_context, raw_data, ahash and dhash (src/cgimage.rs).  *)
(*                                                                         *)
(* A u64 fingerprint is modelled as the set of the positions of its 1 bits *)
(* (TLC integers are 32 bits wide), an f32 as a significand/exponent pair  *)
(* rounded to 24 bits, and CoreGraphics as a backend whose answers (null   *)
(* or not, how many bytes, which bytes) are chosen nondeterministically.   *)
(***************************************************************************)
EXTENDS Integers, Sequences, FiniteSets, TLC

----------------------------------------------------------------------------
(* Bounds of the model. *)

MaxDim == 1        \* side of a source image, in pixels
MaxTarget == 2     \* side requested of shrink() by a direct caller
MaxPad == 1        \* bytes the backend may allocate beyond the bitmap

Components == {1, 3, 4}          \* gray, RGB, CMYK colour spaces
Levels == {0, 127, 128, 255}     \* sample values of the non-uniform test images
Cuts == {1, 9, 32, 63}           \* where a two-tone image changes tone

----------------------------------------------------------------------------
(* f32 arithmetic on non-negative values: [m, e] stands for m * 2^e, with  *)
(* m = 0 or 2^(F32Bits-1) <= m < 2^F32Bits; m = -1 is NaN.                 *)

F16Bits == 10 + 1

F32Bits == 24

RECURSIVE Pow2(_)
Pow2(n) == IF n <= 0 THEN 1 ELSE 2 * Pow2(n - 1)

RECURSIVE BitLen(_)
BitLen(q) == IF q = 0 THEN 0 ELSE 1 + BitLen(q \div 2)

F32Zero == [m |-> 0, e |-> 0]
F32NaN == [m |-> -1, e |-> 0]

\* q / 2^s rounded to the nearest integer, ties to even; sticky tells that
\* bits below q were already dropped.
RoundHalfEven(q, s, sticky) ==
  LET d == Pow2(s)
      fl == q \div d
      r == q % d
      half == d \div 2
  IN IF r > half \/ (r = half /\ sticky) \/ (r = half /\ ~sticky /\ fl % 2 = 1)
     THEN fl + 1 ELSE fl

\* the f32 nearest to q * 2^e
RECURSIVE F32Norm(_, _, _)
F32Norm(q, e, sticky) ==
  LET s == BitLen(q) - F32Bits
  IN IF q = 0 THEN F32Zero
     ELSE IF s > 0 THEN F32Norm(RoundHalfEven(q, s, sticky), e + s, FALSE)
     ELSE [m |-> q * Pow2(0 - s), e |-> e + s]

\* `*d as f32`
U8AsF32(d) == F32Norm(d, 0, FALSE)

\* `data.len() as f32`
UsizeAsF32(n) == F32Norm(n, 0, FALSE)

\* a + b
F32Add(a, b) ==
  IF a.m < 0 \/ b.m < 0 THEN F32NaN
  ELSE IF a.m = 0 THEN b
  ELSE IF b.m = 0 THEN a
  ELSE LET big == IF a.e >= b.e THEN a ELSE b
           small == IF a.e >= b.e THEN b ELSE a
           diff == big.e - small.e
       IN IF diff > F32Bits + 1 THEN big
          ELSE F32Norm(big.m * 4 + ((small.m * 4) \div Pow2(diff)),
                       big.e - 2,
                       (small.m * 4) % Pow2(diff) # 0)

\* long division: quotient bits are produced until the quotient has
\* F32Bits + 2 of them; the result is <<quotient, remainder, shifts>>.
RECURSIVE DivBits(_, _, _, _)
DivBits(q, r, d, s) ==
  IF q >= Pow2(F32Bits + 1) THEN <<q, r, s>>
  ELSE IF 2 * r >= d THEN DivBits(2 * q + 1, 2 * r - d, d, s + 1)
       ELSE DivBits(2 * q, 2 * r, d, s + 1)

\* a / b
F32Div(a, b) ==
  IF a.m < 0 \/ b.m < 0 THEN F32NaN
  ELSE IF b.m = 0 THEN F32NaN           \* 0.0 / 0.0; x / 0.0 with x > 0 is not reached
  ELSE IF a.m = 0 THEN F32Zero
  ELSE LET t == DivBits(a.m \div b.m, a.m % b.m, b.m, 0)
       IN F32Norm(t[1], a.e - b.e - t[3], t[2] # 0)

\* a > b
F32Gt(a, b) ==
  IF a.m < 0 \/ b.m < 0 THEN FALSE
  ELSE IF a.m = 0 THEN FALSE
  ELSE IF b.m = 0 THEN TRUE
  ELSE a.e > b.e \/ (a.e = b.e /\ a.m > b.m)

----------------------------------------------------------------------------
(* Images and the rendering backend.  An image is [width, height, ncomp,   *)
(* bytes, scene]: bytes is what CGDataProviderCopyData hands back for it,  *)
(* scene is the picture it shows, one of Patterns.  Drawing an image into  *)
(* a context renders its scene at the resolution of the context.           *)

NoScene == [kind |-> "split", a |-> 0, b |-> 0, k |-> 0]

NoImage == [width |-> 0, height |-> 0, ncomp |-> 0, bytes |-> << >>, scene |-> NoScene]

\* two-tone, checkerboard and gradient pictures (one tone when a = b)
Patterns ==
  [kind : {"split"}, a : Levels, b : Levels, k : Cuts]
  \cup [kind : {"checker"}, a : Levels, b : Levels, k : {0}]
  \cup [kind : {"ramp"}, a : {0, 255}, b : {0}, k : {1, 28, 255}]

\* the pictures of one tone, for every tone
UniformPatterns == {[kind |-> "split", a |-> v, b |-> v, k |-> 0] : v \in 0..255}

\* sample i (from 0) of pattern p in a bitmap of w samples per row
Sample(p, i, w) ==
  IF p.kind = "split" THEN (IF i < p.k THEN p.a ELSE p.b)
  ELSE IF p.kind = "checker"
       THEN (IF ((i \div w) + (i % w)) % 2 = 0 THEN p.a ELSE p.b)
  ELSE (p.a + (i % w) * p.k) % 256

Rendered(len, p, w) == [i \in 1..len |-> Sample(p, i - 1, w)]

\* create_device_gray_color_space() / number_of_components_for_color_space
DeviceGrayComponents == 1

\* CGContext::create_bitmap_context: the wrapper returns a CGContext, never
\* an error, so a failed creation comes back as a context around null.
create_bitmap_context(width, height, bytes_per_row, ncomp) ==
  {[valid |-> v, width |-> width, height |-> height,
    bytes_per_row |-> bytes_per_row, ncomp |-> ncomp] : v \in BOOLEAN}

\* The bitmaps the backend may hand back for a context after image was
\* drawn into it: the rows it was asked for and up to MaxPad bytes more
\* ("CoreGraphics may allocate more memory than the image strictly needs").
Bitmaps(context, image) ==
  {[pad |-> d,
    image |-> [width |-> context.width, height |-> context.height,
               ncomp |-> context.ncomp,
               bytes |-> Rendered(context.bytes_per_row * context.height + d,
                                  image.scene, context.bytes_per_row),
               scene |-> image.scene]] :
     d \in 0..MaxPad}

\* A result of convert_to_gray or shrink: kind is Ok, Err
\* (BitmapConversionFailed), PanicUnimplemented or Crash; canvases counts the
\* contexts asked of the backend, fault names the backend step that failed.
Result(kind, image, canvases, fault, pad) ==
  [kind |-> kind, img |-> image, canvases |-> canvases, fault |-> fault, pad |-> pad]

\* CGImage::image_from_bitmap_context
image_from_bitmap_context(context, drawn) ==
  IF ~context.valid
  THEN {Result("Err", NoImage, 1, "canvas", 0)}
  ELSE {Result("Err", NoImage, 1, "image", 0)}
       \cup {Result("Ok", b.image, 1, "none", b.pad) : b \in Bitmaps(context, drawn)}

\* What follows create_bitmap_context in both callers: draw_into_context,
\* then image_from_bitmap_context.  Neither caller tests the context; on a
\* null one the CoreGraphics calls and the CFRelease of the wrapper either
\* bring the process down or are ignored.
DrawAndRead(context, image) ==
  (IF context.valid THEN {} ELSE {Result("Crash", NoImage, 1, "canvas", 0)})
  \cup image_from_bitmap_context(context, image)

\* CGImage::convert_to_gray
convert_to_gray(image) ==
  UNION {DrawAndRead(c, image) :
           c \in create_bitmap_context(image.width, image.height, image.width,
                                       DeviceGrayComponents)}

\* `if num_components != 1` of shrink
NotGrayLoose(num_components) == num_components > 3

NotGray(num_components) == num_components # 1

\* `let bytes_per_row = width` of shrink
BytesPerRowSwapped(width, height) == height

BytesPerRow(width, height) == width

\* CGImage::shrink
shrink(image, width, height) ==
  IF NotGray(image.ncomp)
  THEN {Result("PanicUnimplemented", NoImage, 0, "none", 0)}
  ELSE UNION {DrawAndRead(c, image) :
                c \in create_bitmap_context(width, height, BytesPerRow(width, height),
                                            image.ncomp)}

\* CGImage::raw_data
raw_data(image) == image.bytes

----------------------------------------------------------------------------
(* The pure parts of ahash and dhash. *)

\* `if 64 != data.len()` of ahash: TRUE when the panic is taken
AhashLenBadLoose(len) == len < 64

AhashLenBad(len) == 64 # len

\* `if 72 != data.len()` of dhash
DhashLenBad(len) == 72 # len

\* one step of `data.iter().map(|d| *d as f32).sum::<f32>()`, a left fold
\* from 0.0
SumStep(acc, d) == F32Add(acc, U8AsF32(d))

\* `let avg = <sum> / (data.len() as f32)`
Avg(total, len) == F32Div(total, UsizeAsF32(len))

\* `if *val as f32 > avg`
AhashTestOrEqual(val, a) == ~F32Gt(a, U8AsF32(val))

AhashTest(val, a) == F32Gt(U8AsF32(val), a)

\* `if v1 > v2`
DhashTestOrEqual(v1, v2) == v1 >= v2

DhashTest(v1, v2) == v1 > v2

\* `row * 9 + col` and `row * 9 + col + 1` of dhash
LeftIndexStride8(r, c) == r * 8 + c

LeftIndex(r, c) == r * 9 + c

RightIndexWide(r, c) == r * 9 + c + 2

RightIndex(r, c) == r * 9 + c + 1

\* `1 << idx` on a u64: the bit idx; for idx >= 64 a debug build panics and
\* a release build shifts by idx % 64.
Shl1Reversed(i) ==
  IF i < 64 THEN {[overflow |-> FALSE, bits |-> {63 - i}]}
  ELSE {[overflow |-> TRUE, bits |-> {}], [overflow |-> FALSE, bits |-> {63 - (i % 64)}]}

Shl1(i) ==
  IF i < 64 THEN {[overflow |-> FALSE, bits |-> {i}]}
  ELSE {[overflow |-> TRUE, bits |-> {}], [overflow |-> FALSE, bits |-> {i % 64}]}

\* `.and_then(|i| i.shrink(..))`: the closure runs on Ok only
AndThenAlways(kind) == TRUE

AndThen(kind) == kind = "Ok"

----------------------------------------------------------------------------
(* State. *)

VARIABLES
  call,      \* the public method in progress: none, ahash, dhash, shrink, convert_to_gray
  pc,        \* idle, gray, shrink, raw_data, check, init, sum, loop, done
  self,      \* the image the method was called on
  req,       \* <<width, height>> passed to the last shrink
  img,       \* the image in the Result chain of line 167/187
  data,      \* `data`
  sum, pos,  \* the accumulator of sum::<f32>() and how many samples it has taken
  avg,       \* `avg`
  hsh,       \* `hsh`, as the set of its 1 bits
  idx,       \* `idx`
  row, col,  \* `row`, `col`
  outcome,   \* how the call ended: none, Ok, Err, Crash, PanicUnimplemented,
             \* PanicLen, PanicUnwrap, PanicShift
  stages,    \* history: the stages run so far in this call, with their success
  reads,     \* history: the <<left, right>> index pairs dhash has compared
  canvases,  \* history: contexts asked of the backend by the last stage
  fault,     \* history: the backend step that failed in this call
  pad        \* history: bytes the backend added to the last bitmap

vars == <<call, pc, self, req, img, data, sum, pos, avg, hsh, idx, row, col, outcome,
          stages, reads, canvases, fault, pad>>

\* the decoded images of the pictures P a caller may hold
SourcesOf(P) ==
  {[width |-> w, height |-> h, ncomp |-> n,
    bytes |-> Rendered(w * h * n, p, w * n), scene |-> p] :
     w \in 1..MaxDim, h \in 1..MaxDim, n \in Components, p \in P}

Sources == SourcesOf(Patterns)
UniformSources == SourcesOf(UniformPatterns)

Init ==
  /\ call = "none" /\ pc = "idle"
  /\ self = NoImage /\ req = <<0, 0>> /\ img = NoImage
  /\ data = << >> /\ sum = F32Zero /\ pos = 0 /\ avg = F32Zero /\ hsh = {} /\ idx = 0 /\ row = 0 /\ col = 0
  /\ outcome = "none" /\ stages = << >> /\ reads = {}
  /\ canvases = 0 /\ fault = "none" /\ pad = 0

Stage(name, ok) == [stage |-> name, ok |-> ok]

\* the caller invokes image.ahash() or image.dhash() on one of the images S
CallHashOn(S) ==
  /\ pc = "idle"
  /\ \E m \in {"ahash", "dhash"}, s \in S :
       /\ call' = m /\ self' = s
  /\ pc' = "gray" /\ outcome' = "none"
  /\ UNCHANGED <<req, img, data, sum, pos, avg, hsh, idx, row, col, stages, reads,
                 canvases, fault, pad>>

\* The end of a method: Err returns through try!, a panic or crash unwinds.
Finish(kind) == pc' = "done" /\ outcome' = kind

\* self.convert_to_gray() at the head of line 167 / 187
HashGray ==
  /\ pc = "gray"
  /\ \E r \in convert_to_gray(self) :
       /\ img' = r.img /\ canvases' = r.canvases /\ fault' = r.fault /\ pad' = r.pad
       /\ stages' = Append(stages, Stage("convert_to_gray", r.kind = "Ok"))
       /\ IF AndThen(r.kind)
          THEN pc' = "shrink" /\ UNCHANGED outcome
          ELSE Finish(r.kind)
  /\ UNCHANGED <<call, self, req, data, sum, pos, avg, hsh, idx, row, col, reads>>

\* .and_then(|i| i.shrink(8, 8)) / .and_then(|i| i.shrink(9, 8))
HashShrink ==
  /\ pc = "shrink"
  /\ LET w == IF call = "ahash" THEN 8 ELSE 9
         h == 8
     IN /\ req' = <<w, h>>
        /\ \E r \in shrink(img, w, h) :
             /\ img' = r.img /\ canvases' = r.canvases /\ pad' = r.pad
             /\ fault' = r.fault
             /\ stages' = Append(stages, Stage("shrink", r.kind = "Ok"))
             /\ IF r.kind = "Ok"
                THEN pc' = "raw_data" /\ UNCHANGED outcome
                ELSE Finish(r.kind)
  /\ UNCHANGED <<call, self, data, sum, pos, avg, hsh, idx, row, col, reads>>

\* .map(|i| i.raw_data()) and the try! around the chain
HashRawData ==
  /\ pc = "raw_data"
  /\ data' = raw_data(img)
  /\ stages' = Append(stages, Stage("raw_data", TRUE))
  /\ pc' = "check"
  /\ UNCHANGED <<call, self, req, img, sum, pos, avg, hsh, idx, row, col, outcome, reads,
                 canvases, fault, pad>>

\* the length test of lines 170-172 / 190-192
HashCheck ==
  /\ pc = "check"
  /\ LET bad == IF call = "ahash" THEN AhashLenBad(Len(data))
                ELSE DhashLenBad(Len(data))
     IN /\ stages' = Append(stages, Stage("check", ~bad))
        /\ IF bad THEN Finish("PanicLen")
           ELSE pc' = "init" /\ UNCHANGED outcome
  /\ UNCHANGED <<call, self, req, img, data, sum, pos, avg, hsh, idx, row, col, reads,
                 canvases, fault, pad>>

\* what follows the length test: the iterator of line 175 in ahash, lines
\* 193-194 in dhash
HashInit ==
  /\ pc = "init"
  /\ sum' = F32Zero /\ pos' = 0
  /\ hsh' = {} /\ idx' = 0 /\ row' = 0 /\ col' = 0
  /\ stages' = Append(stages, Stage("bits", TRUE))
  /\ pc' = IF call = "ahash" THEN "sum" ELSE "loop"
  /\ UNCHANGED <<call, self, req, img, data, avg, outcome, reads, canvases, fault, pad>>

\* sum::<f32>() takes one more sample
AhashSum ==
  /\ pc = "sum" /\ pos < Len(data)
  /\ sum' = SumStep(sum, data[pos + 1])
  /\ pos' = pos + 1
  /\ UNCHANGED <<call, pc, self, req, img, data, avg, hsh, idx, row, col, outcome,
                 stages, reads, canvases, fault, pad>>

\* the iterator is exhausted: the division of line 175 and line 176; a loop
\* over no sample falls through to Ok(hsh)
AhashAvg ==
  /\ pc = "sum" /\ pos = Len(data)
  /\ avg' = Avg(sum, Len(data))
  /\ hsh' = {}
  /\ IF Len(data) = 0 THEN Finish("Ok") ELSE pc' = "loop" /\ UNCHANGED outcome
  /\ UNCHANGED <<call, self, req, img, data, sum, pos, idx, row, col, stages, reads,
                 canvases, fault, pad>>

\* one iteration of the loop of lines 177-181, and Ok(hsh) after the last
AhashStep ==
  /\ pc = "loop" /\ call = "ahash"
  /\ idx < Len(data)
  /\ \E s \in Shl1(idx), set \in {AhashTest(data[idx + 1], avg)} :
       IF set /\ s.overflow
       THEN Finish("PanicShift") /\ UNCHANGED <<hsh, idx>>
       ELSE /\ hsh' = IF set THEN hsh \cup s.bits ELSE hsh
            /\ idx' = idx + 1
            /\ IF idx + 1 = Len(data) THEN Finish("Ok")
               ELSE UNCHANGED <<pc, outcome>>
  /\ UNCHANGED <<call, self, req, img, data, sum, pos, avg, row, col, stages, reads,
                 canvases, fault, pad>>

\* one iteration of the loops of lines 195-205, and Ok(hsh) after the last
DhashStep ==
  /\ pc = "loop" /\ call = "dhash"
  /\ row < 8 /\ col < 8
  /\ LET l == LeftIndex(row, col)
         r == RightIndex(row, col)
     IN /\ reads' = reads \cup {<<l, r>>}
        /\ IF l >= Len(data) \/ r >= Len(data)
           THEN Finish("PanicUnwrap") /\ UNCHANGED <<hsh, idx, row, col>>
           ELSE \E s \in Shl1(idx), set \in {DhashTest(data[l + 1], data[r + 1])} :
                  IF set /\ s.overflow
                  THEN Finish("PanicShift") /\ UNCHANGED <<hsh, idx, row, col>>
                  ELSE /\ hsh' = IF set THEN hsh \cup s.bits ELSE hsh
                       /\ idx' = (idx + 1) % 65536
                       /\ col' = IF col = 7 THEN 0 ELSE col + 1
                       /\ row' = IF col = 7 THEN row + 1 ELSE row
                       /\ IF col = 7 /\ row = 7 THEN Finish("Ok")
                          ELSE UNCHANGED <<pc, outcome>>
  /\ UNCHANGED <<call, self, req, img, data, sum, pos, avg, stages, canvases, fault,
                 pad>>

\* a caller invokes image.shrink(width, height) itself
CallShrinkOn(S) ==
  /\ pc = "idle"
  /\ \E s \in S, w \in 1..MaxTarget, h \in 1..MaxTarget :
       /\ call' = "shrink" /\ self' = s /\ req' = <<w, h>>
       /\ \E r \in shrink(s, w, h) :
            /\ img' = r.img /\ canvases' = r.canvases /\ fault' = r.fault
            /\ pad' = r.pad
            /\ stages' = <<Stage("shrink", r.kind = "Ok")>>
            /\ Finish(r.kind)
  /\ UNCHANGED <<data, sum, pos, avg, hsh, idx, row, col, reads>>

\* a caller invokes image.convert_to_gray() itself
CallConvertToGrayOn(S) ==
  /\ pc = "idle"
  /\ \E s \in S :
       /\ call' = "convert_to_gray" /\ self' = s
       /\ \E r \in convert_to_gray(s) :
            /\ img' = r.img /\ canvases' = r.canvases /\ fault' = r.fault
            /\ pad' = r.pad
            /\ stages' = <<Stage("convert_to_gray", r.kind = "Ok")>>
            /\ Finish(r.kind)
  /\ UNCHANGED <<req, data, sum, pos, avg, hsh, idx, row, col, reads>>

\* The caller has the result (outcome keeps its kind until the next call);
\* the locals of the method are gone.
Return ==
  /\ pc = "done"
  /\ call' = "none" /\ pc' = "idle"
  /\ self' = NoImage /\ req' = <<0, 0>> /\ img' = NoImage
  /\ data' = << >> /\ sum' = F32Zero /\ pos' = 0 /\ avg' = F32Zero /\ hsh' = {} /\ idx' = 0 /\ row' = 0 /\ col' = 0
  /\ stages' = << >> /\ reads' = {}
  /\ canvases' = 0 /\ fault' = "none" /\ pad' = 0
  /\ UNCHANGED outcome

CallHash == CallHashOn(Sources)
CallShrink == CallShrinkOn(Sources)
CallConvertToGray == CallConvertToGrayOn(Sources)

Next ==
  \/ CallHash
  \/ HashGray
  \/ HashShrink
  \/ HashRawData
  \/ HashCheck
  \/ HashInit
  \/ AhashSum
  \/ AhashAvg
  \/ AhashStep
  \/ DhashStep
  \/ CallShrink
  \/ CallConvertToGray
  \/ Return

Spec == Init /\ [][Next]_vars

\* the same program, given the images of one tone only
UniformCallHash == CallHashOn(UniformSources)
UniformCallShrink == CallShrinkOn(UniformSources)
UniformCallConvertToGray == CallConvertToGrayOn(UniformSources)

NextUniform ==
  \/ UniformCallHash
  \/ HashGray
  \/ HashShrink
  \/ HashRawData
  \/ HashCheck
  \/ HashInit
  \/ AhashSum
  \/ AhashAvg
  \/ AhashStep
  \/ DhashStep
  \/ UniformCallShrink
  \/ UniformCallConvertToGray
  \/ Return

SpecUniform == Init /\ [][NextUniform]_vars

----------------------------------------------------------------------------
(* Exact arithmetic the claims are stated in. *)

RECURSIVE SumOver(_, _, _)
SumOver(d, lo, hi) ==
  IF lo > hi THEN 0
  ELSE IF lo = hi THEN d[lo]
  ELSE SumOver(d, lo, (lo + hi) \div 2) + SumOver(d, (lo + hi) \div 2 + 1, hi)

Sum(d) == SumOver(d, 1, Len(d))

Uniform(d) == \A i \in 1..Len(d) : d[i] = d[1]

RECURSIVE OddPart(_)
OddPart(n) == IF n = 0 \/ n % 2 = 1 THEN n ELSE OddPart(n \div 2)

RECURSIVE TrailingZeros(_)
TrailingZeros(n) == IF n = 0 \/ n % 2 = 1 THEN 0 ELSE 1 + TrailingZeros(n \div 2)

\* the f32 f is exactly n / 2^k
ExactlyOver(f, n, k) ==
  IF n = 0 THEN f.m = 0
  ELSE /\ f.m > 0
       /\ OddPart(f.m) = OddPart(n)
       /\ f.e + TrailingZeros(f.m) = TrailingZeros(n) - k

Hashing == call \in {"ahash", "dhash"}
Returned(kind) == pc = "done" /\ outcome = kind
LastStage == stages[Len(stages)]
ShrinkRan == stages # << >> /\ LastStage.stage = "shrink"
ExpectedLen == IF call = "ahash" THEN 64 ELSE 72
Order == <<"convert_to_gray", "shrink", "raw_data", "check", "bits">>

----------------------------------------------------------------------------
(* The claims. *)

\* C1: throughout and after the loop of ahash over a 64-sample buffer, bit i
\* of hsh is 1 iff sample i has been visited and is strictly greater than
\* the arithmetic mean of the 64 samples (64 * sample[i] > sum); no bit
\* outside 0..63 is set.  At Ok(hsh) every sample has been visited.
C1_AhashBits ==
  (call = "ahash" /\ pc \in {"loop", "done"} /\ Len(data) = 64) =>
    LET total == Sum(data)
    IN /\ hsh \subseteq 0..63
       /\ \A i \in 0..63 : (i \in hsh) <=> (i < idx /\ 64 * data[i + 1] > total)
       /\ outcome = "Ok" => idx = 64

C1_Witness ==
  /\ call = "ahash" /\ Returned("Ok") /\ Len(data) = 64
  /\ hsh # {} /\ hsh # 0..63 /\ 0 \notin hsh /\ 63 \in hsh

\* C2: throughout and after the loops of dhash over a 72-sample buffer, bit
\* r*8+c of hsh is 1 iff the pair has been visited and sample[r*9+c] is
\* strictly greater than sample[r*9+c+1]; the only pairs ever compared are
\* <<r*9+c, r*9+c+1>> with c in 0..7, so a ninth column is never a left
\* operand and never meets the first sample of the next row.
C2_DhashBits ==
  (call = "dhash" /\ pc \in {"loop", "done"} /\ Len(data) = 72) =>
    /\ hsh \subseteq 0..63
    /\ \A r \in 0..7, c \in 0..7 :
         (r * 8 + c \in hsh) <=>
           (r * 8 + c < idx /\ data[r * 9 + c + 1] > data[r * 9 + c + 2])
    /\ reads \subseteq {<<r * 9 + c, r * 9 + c + 1>> : r \in 0..7, c \in 0..7}
    /\ outcome = "Ok" => idx = 64

C2_Witness ==
  /\ call = "dhash" /\ Returned("Ok") /\ Len(data) = 72
  /\ hsh # {} /\ hsh # 0..63
  /\ \E r \in 0..6 : data[r * 9 + 9] > data[(r + 1) * 9 + 1]

\* C3: once the length test of ahash (dhash) has run, a buffer whose length
\* is not 64 (72) has ended the call in the length panic with no bit
\* computed, and Ok is returned only from a buffer of exactly 64 (72) bytes.
C3_NoHashFromMisSizedBuffer ==
  Hashing =>
    /\ (Len(stages) >= 4 /\ Len(data) # ExpectedLen) =>
         (Returned("PanicLen") /\ hsh = {} /\ Len(stages) = 4)
    /\ outcome = "Ok" => Len(data) = ExpectedLen
    /\ outcome = "PanicLen" => Len(data) # ExpectedLen

C3_Witness ==
  /\ call = "ahash" /\ Returned("PanicLen") /\ Len(data) = 65

\* C4 as stated: shrink on an image whose colour space has other than one
\* component ends in an error value returned to the caller, with no canvas.
C4_UnsupportedColorModelIsAnErr ==
  (ShrinkRan /\ pc = "done" /\ call = "shrink" /\ self.ncomp # 1) =>
    (outcome = "Err" /\ canvases = 0)

\* C4 amended: shrink on an image whose colour space has other than one
\* component ends in the unimplemented!() panic, with no canvas asked of the
\* backend and no image produced.
C4_ShrinkPanicsOnColor ==
  (ShrinkRan /\ pc = "done" /\ call = "shrink" /\ self.ncomp # 1) =>
    (outcome = "PanicUnimplemented" /\ canvases = 0 /\ img = NoImage)

C4_Witness ==
  /\ call = "shrink" /\ pc = "done" /\ self.ncomp = 3
  /\ outcome = "PanicUnimplemented"

\* C5 as stated: shrink never hands back, as a success, an image whose
\* buffer is not width * height bytes long.
C5_ShrinkReturnsExactLength ==
  (ShrinkRan /\ LastStage.ok) => Len(raw_data(img)) = req[1] * req[2]

\* C5 amended: shrink tests no length.  A shrink never ends in the length
\* panic, and when it succeeds the image has the requested width and height
\* and a buffer of width * height bytes plus whatever the backend padded,
\* which may differ from width * height.
C5_ShrinkDoesNotCheckLength ==
  ShrinkRan =>
    /\ (pc = "done" => outcome \in {"Ok", "Err", "Crash", "PanicUnimplemented"})
    /\ LastStage.ok =>
         /\ img.width = req[1] /\ img.height = req[2]
         /\ Len(raw_data(img)) = req[1] * req[2] + pad

C5_Witness ==
  /\ call = "shrink" /\ Returned("Ok") /\ self.ncomp = 1
  /\ Len(raw_data(img)) > req[1] * req[2]

\* C6: when the backend fails to create a canvas or to hand back the
\* rendered image during convert_to_gray or shrink, ahash and dhash return
\* an error value: no fingerprint, no abort, and no second canvas.
C6_CanvasFailuresPropagate ==
  (Hashing /\ fault # "none") =>
    (Returned("Err") /\ hsh = {} /\ canvases = 1)

\* C7: a buffer of equal samples gives fingerprint 0 from both hashes, for
\* every sample value 0..255: no bit is set at any point of the loop, and Ok
\* carries 0.
C7_UniformBufferHashesToZero ==
  (Hashing /\ pc \in {"loop", "done"} /\ Len(data) = ExpectedLen /\ Uniform(data)) =>
    hsh = {}

C7_Witness ==
  /\ call = "ahash" /\ Returned("Ok") /\ Uniform(data) /\ data[1] = 255

\* C8: the stages of a hash run in the order convert_to_gray, shrink
\* (8 x 8 for ahash, 9 x 8 for dhash), raw_data, length test, bits; a stage
\* runs only after all the previous ones succeeded, a failed stage ends
\* the call, and bits exist only once the length test has passed.
C8_StagesInOrder ==
  Hashing =>
    /\ Len(stages) <= 5
    /\ \A k \in 1..Len(stages) :
         /\ stages[k].stage = Order[k]
         /\ k < Len(stages) => stages[k].ok
    /\ (stages # << >> /\ ~LastStage.ok) => pc = "done" /\ outcome # "Ok"
    /\ Len(stages) >= 2 => req = <<IF call = "ahash" THEN 8 ELSE 9, 8>>
    /\ Len(stages) < 3 => data = << >>
    /\ (hsh # {} \/ pc = "loop" \/ outcome = "Ok") => (Len(stages) = 5 /\ stages[4].ok)

C8_Witness ==
  /\ call = "dhash" /\ Returned("Ok") /\ Len(stages) = 5 /\ hsh # {}

\* C9: every step taken inside the loops of dhash reads two indices within
\* 0..71, shifts by an idx equal to row*8+col and at most 63, and leaves idx
\* one larger; idx is 64 only when the loops are over, and then Ok follows.
C9_DhashIndices ==
  [][(call = "dhash" /\ pc = "loop") =>
       /\ row \in 0..7 /\ col \in 0..7
       /\ LeftIndex(row, col) \in 0..71 /\ RightIndex(row, col) \in 0..71
       /\ Len(data) = 72
       /\ idx = row * 8 + col /\ idx <= 63
       /\ idx' = idx + 1
       /\ reads' = reads \cup {<<row * 9 + col, row * 9 + col + 1>>}
       /\ Cardinality(reads') = idx'
       /\ outcome' \notin {"PanicUnwrap", "PanicShift"}
       /\ (idx' = 64) <=> (pc' = "done" /\ outcome' = "Ok")]_vars

C9_Witness ==
  /\ call = "dhash" /\ Returned("Ok") /\ idx = 64 /\ Cardinality(reads) = 64
  /\ <<70, 71>> \in reads

\* C10: in ahash over 64 samples the sum is at most 16320 < 2^24, every
\* partial f32 sum is exactly the integer sum of the samples taken, the
\* divisor is exactly 64, avg is exactly sum / 64, and (looked at when the
\* call ends) for every sample the f32 test `sample > avg` agrees with
\* 64 * sample > sum.
C10_F32MeanIsExact ==
  (call = "ahash" /\ pc \in {"sum", "loop", "done"} /\ Len(data) = 64) =>
    /\ Sum(data) \in 0..16320
    /\ 16320 < Pow2(F32Bits)
    /\ UsizeAsF32(Len(data)) = [m |-> Pow2(F32Bits - 1), e |-> 7 - F32Bits]
    /\ ExactlyOver(sum, SumOver(data, 1, pos), 0)
    /\ pc # "sum" =>
         LET total == Sum(data)
         IN /\ pos = 64
            /\ ExactlyOver(avg, total, 6)
            /\ pc = "done" =>
                 \A i \in 1..64 : AhashTest(data[i], avg) <=> (64 * data[i] > total)

C10_Witness ==
  /\ call = "ahash" /\ Returned("Ok") /\ Len(data) = 64
  /\ Sum(data) % 64 # 0 /\ Sum(data) > 8192 /\ hsh # {}

====
